---------------------------- MODULE Spec2Model ----------------------------
(***************************************************************************)
(* A model of raspi-file-server: the request parser, the route matcher,    *)
(* the Response builder and its serializer, and the Server that holds the  *)
(* route table and handles one connection at a time.                       *)
(*                                                                         *)
(* A Rust String is a sequence of one-character strings, so that split,    *)
(* starts_with, len and == are computed as the code computes them.         *)
(***************************************************************************)
EXTENDS Naturals, Sequences, FiniteSets, TLC

(***************************************************************************)
(* Bounds of the model.                                                    *)
(***************************************************************************)
MaxPathLen == 4
MaxRouteLen == 4
MaxFrags == 2
MaxCalls == 3
MaxRoutes == 3

(***************************************************************************)
(* Characters.                                                             *)
(***************************************************************************)
SP == " "
TAB == "\t"
NL == "\n"
NUL == "NUL"

(***************************************************************************)
(* str::split(pat): the pieces between the separators, empty pieces kept;  *)
(* a string with n separators has n + 1 pieces, the empty string has one.  *)
(***************************************************************************)
RECURSIVE split(_, _)
split(s, seps) ==
    IF \A i \in 1..Len(s) : s[i] \notin seps
    THEN <<s>>
    ELSE LET i == CHOOSE k \in 1..Len(s) :
                    /\ s[k] \in seps
                    /\ \A j \in 1..(k - 1) : s[j] \notin seps
         IN  <<SubSeq(s, 1, i - 1)>> \o split(SubSeq(s, i + 1, Len(s)), seps)

\* Iterator::filter(|s| !s.is_empty())
NonEmpty(s) == s # <<>>
filter_non_empty(pieces) == SelectSeq(pieces, NonEmpty)

\* the placeholder of the specification: a segment wrapped in braces
wrapped_in_braces(s) == Len(s) >= 2 /\ s[1] = "{" /\ s[Len(s)] = "}"

\* str::starts_with('{')
starts_with_brace(s) == Len(s) > 0 /\ s[1] = "{"

(***************************************************************************)
(* utils::request_matches_route.  The request's segments: split on '/',    *)
(* drop the empty pieces, THEN cut each remaining piece at its first '?'   *)
(* (filter_map over split('?').next(), which is always Some).              *)
(***************************************************************************)
req_sub_paths(path) ==
    LET kept == filter_non_empty(split(path, {"/"}))
    IN  [i \in 1..Len(kept) |-> split(kept[i], {"?"})[1]]

route_sub_paths(route) == filter_non_empty(split(route, {"/"}))

\* the loop over (req_sub_paths.next(), route_sub_paths.next())
RECURSIVE match_loop(_, _)
match_loop(req, rou) ==
    IF req = <<>> /\ rou = <<>> THEN TRUE
    ELSE IF req = <<>> \/ rou = <<>> THEN FALSE
    ELSE IF starts_with_brace(Head(rou)) THEN match_loop(Tail(req), Tail(rou))
    ELSE IF Head(req) # Head(rou) THEN FALSE
    ELSE match_loop(Tail(req), Tail(rou))

request_matches_route(path, route) ==
    IF path = route THEN TRUE
    ELSE match_loop(req_sub_paths(path), route_sub_paths(route))

(***************************************************************************)
(* HttpMethod and its TryFrom<&str>: an exact, case-sensitive match of the *)
(* token against the four names.                                           *)
(***************************************************************************)
HttpMethod == {"GET", "PUT", "PATCH", "DELETE"}

GET == <<"G", "E", "T">>
PUT == <<"P", "U", "T">>
PATCH == <<"P", "A", "T", "C", "H">>
DELETE == <<"D", "E", "L", "E", "T", "E">>

RequestParseError == [ok |-> FALSE]

try_from(value) ==
    IF value = GET THEN [ok |-> TRUE, method |-> "GET"]
    ELSE IF value = PUT THEN [ok |-> TRUE, method |-> "PUT"]
    ELSE IF value = PATCH THEN [ok |-> TRUE, method |-> "PATCH"]
    ELSE IF value = DELETE THEN [ok |-> TRUE, method |-> "DELETE"]
    ELSE RequestParseError

(***************************************************************************)
(* Option<String> and HashMap.  insert overwrites the value of a key that  *)
(* is present; collect() inserts the pairs in iteration order.             *)
(***************************************************************************)
None == <<>>
Some(v) == <<v>>

EmptyMap == <<>>

\* an insert that keeps the value of a key already present
insert_if_absent(map, key, value) ==
    [k \in DOMAIN map \cup {key} |-> IF k \in DOMAIN map THEN map[k] ELSE value]

\* HashMap::insert
hash_map_insert(map, key, value) ==
    [k \in DOMAIN map \cup {key} |-> IF k = key THEN value ELSE map[k]]

RECURSIVE collect_from(_, _)
collect_from(map, pairs) ==
    IF pairs = <<>> THEN map
    ELSE collect_from(hash_map_insert(map, Head(pairs)[1], Head(pairs)[2]),
                      Tail(pairs))

collect(pairs) == collect_from(EmptyMap, pairs)

(***************************************************************************)
(* utils::parse_request_from_http_request_body.                            *)
(*   words = content.split(' '): the method is the first piece, the path   *)
(*   the second piece (an empty piece is a piece).                         *)
(*   queries: the path split on '?' and '&', first piece skipped; each     *)
(*   piece split on '=': key = first piece (always Some, so the filter on  *)
(*   key.is_some() drops nothing), value = second piece if there is one.   *)
(***************************************************************************)
key_val(fragment) ==
    LET pieces == split(fragment, {"="})
    IN  <<pieces[1], IF Len(pieces) >= 2 THEN Some(pieces[2]) ELSE None>>

parse_queries(path) ==
    LET fragments == Tail(split(path, {"?", "&"}))
    IN  collect([i \in 1..Len(fragments) |-> key_val(fragments[i])])

parse_request_from_http_request_body(content) ==
    LET words == split(content, {SP})
        m == try_from(words[1])
    IN  IF ~m.ok THEN RequestParseError
        ELSE IF Len(words) < 2 THEN RequestParseError
        ELSE [ok |-> TRUE,
              raw_content |-> content,
              path |-> words[2],
              method |-> m.method,
              queries |-> parse_queries(words[2])]

(***************************************************************************)
(* Response: HttpStatusCode, HttpHeaderName, the setters.  headers is a    *)
(* HashMap from header name to value.                                      *)
(***************************************************************************)
HttpStatusCode == {"OK", "BadRequest", "NotFound", "InternalServerError"}

\* impl From<HttpStatusCode> for usize
status_number(code) ==
    CASE code = "OK" -> 200
      [] code = "BadRequest" -> 400
      [] code = "NotFound" -> 404
      [] code = "InternalServerError" -> 500

HttpHeaderName == {"ContentType"}

\* impl From<HttpHeaderName> for &str
header_name_str(name) == CASE name = "ContentType" -> "content-type"

\* Response::default(): status OK (HttpStatusCode::default), empty body,
\* no headers
DefaultResponse == [status_code |-> "OK", body |-> <<>>, headers |-> EmptyMap]

set_status_code(r, code) == [r EXCEPT !.status_code = code]

set_header(r, header_name, header_value) ==
    [r EXCEPT !.headers = hash_map_insert(r.headers, header_name, header_value)]

set_body(r, body) == [r EXCEPT !.body = body]

\* a set_json that sets the body and forgets the header
set_json_body_only(r, json) == [r EXCEPT !.body = json]

set_json(r, json) ==
    [set_header(r, "ContentType", "application/json") EXCEPT !.body = json]

set_html(r, html) ==
    [set_header(r, "ContentType", "text/html") EXCEPT !.body = html]

(***************************************************************************)
(* The wire text is a sequence of pieces whose concatenation is the Rust   *)
(* String: the literal parts of the format string, the formatted numbers,  *)
(* the header names and values are one piece each, NL is a piece of its    *)
(* own, and the body contributes its characters.                           *)
(*                                                                         *)
(* headers_to_string joins one `name: value` line per header with NL, in   *)
(* the HashMap's iteration order (`order`, an enumeration of the keys):    *)
(* with no header it is the empty string.                                  *)
(***************************************************************************)
RECURSIVE join(_, _)
join(pieces, sep) ==
    IF pieces = <<>> THEN <<>>
    ELSE IF Len(pieces) = 1 THEN pieces[1]
    ELSE pieces[1] \o sep \o join(Tail(pieces), sep)

Orderings(S) ==
    {o \in [1..Cardinality(S) -> S] :
        \A i, j \in 1..Cardinality(S) : i # j => o[i] # o[j]}

headers_to_string(headers, order) ==
    join([i \in 1..Len(order) |->
            <<header_name_str(order[i]), ": ", headers[order[i]]>>], <<NL>>)

\* format!("HTTP/1.1 {} {:?}\n{}\ncontent-length: {}\n\n{}", ...)
response_into_http_response_string(response, order) ==
    <<"HTTP/1.1 ", ToString(status_number(response.status_code)), " ",
      response.status_code, NL>>
        \o headers_to_string(response.headers, order)
        \o <<NL, "content-length: ", ToString(Len(response.body)), NL, NL>>
        \o response.body

(***************************************************************************)
(* impl From<RequestParseError> for Response: an HTML body naming the      *)
(* error, status BadRequest.                                               *)
(***************************************************************************)
RequestParseErrorText ==
    <<"R", "e", "q", "u", "e", "s", "t", "P", "a", "r", "s", "e",
      "E", "r", "r", "o", "r">>

\* a conversion that forgets the status code
response_from_error_status_ok == set_html(DefaultResponse, RequestParseErrorText)

response_from_request_parse_error ==
    set_status_code(set_html(DefaultResponse, RequestParseErrorText), "BadRequest")

\* impl From<&str> for Response
response_from_str(text) == set_html(DefaultResponse, text)

(***************************************************************************)
(* Server.  A handler is a boxed closure; the model names it by an id and  *)
(* lets it answer with its id as an HTML text.                             *)
(***************************************************************************)
BufferSize == 5120

\* an insertion at the front of the table
add_route_front(table, method, path, handler) ==
    <<[method |-> method, path |-> path, handler |-> handler]>> \o table

\* Server::add_route: push at the end
add_route(table, method, path, handler) ==
    Append(table, [method |-> method, path |-> path, handler |-> handler])

\* String::from_utf8_lossy(&buffer) of the whole zeroed buffer: the bytes
\* read, then the buffer's remaining zero bytes (their run is one NUL here)
from_utf8_lossy(bytes) ==
    IF Len(bytes) < BufferSize THEN bytes \o <<NUL>> ELSE bytes

\* a scan that returns the last matching route
RECURSIVE find_last_from(_, _, _)
find_last_from(table, request, i) ==
    IF i < 1 THEN 0
    ELSE IF /\ table[i].method = request.method
            /\ request_matches_route(request.path, table[i].path)
         THEN i
         ELSE find_last_from(table, request, i - 1)

find_last(table, request) == find_last_from(table, request, Len(table))

\* a lookup that compares templates only, not methods
RECURSIVE find_ignoring_method_from(_, _, _)
find_ignoring_method_from(table, request, i) ==
    IF i > Len(table) THEN 0
    ELSE IF request_matches_route(request.path, table[i].path)
         THEN i
         ELSE find_ignoring_method_from(table, request, i + 1)

find_ignoring_method(table, request) == find_ignoring_method_from(table, request, 1)

\* self.routes.iter().find(|(method, route, _)| *method == request.method()
\*     && request_matches_route(&request, route)): 0 stands for None
RECURSIVE find_from(_, _, _)
find_from(table, request, i) ==
    IF i > Len(table) THEN 0
    ELSE IF /\ table[i].method = request.method
            /\ request_matches_route(request.path, table[i].path)
         THEN i
         ELSE find_from(table, request, i + 1)

find(table, request) == find_from(table, request, 1)

\* utils::set_request_params_according_to_match: its body is todo!(), which
\* panics whenever it is called
set_request_params_according_to_match(request, route) == [panicked |-> TRUE]

\* the handler's answer to a request
invoke(handler, request) == response_from_str(<<handler>>)

(***************************************************************************)
(* Server::handle_request on one connection.  read_ok and write_ok say     *)
(* whether stream.read and stream.write_all succeed; `order` is the        *)
(* iteration order of the response's headers.  The result is the record of *)
(* what was done:                                                          *)
(*   read      "Ok" or "Err"                                               *)
(*   bytes     the bytes read                                              *)
(*   parsed    "Ok", "Err", or "none" when the read failed                 *)
(*   lookup    whether the route table was scanned                         *)
(*   selected  the index of the route found, 0 for none                    *)
(*   invoked   the handler calls made: handler id and request              *)
(*   attempted the texts given to write_all                                *)
(*   written   the texts write_all wrote                                   *)
(*   result    "Ok", "Err" (the io::Error returned by `?`) or "panic"      *)
(***************************************************************************)
Conn(bytes, parsed, lookup, selected, invoked, attempted, write_ok, result) ==
    [read |-> "Ok", bytes |-> bytes, parsed |-> parsed, lookup |-> lookup,
     selected |-> selected, invoked |-> invoked, attempted |-> attempted,
     written |-> IF write_ok THEN attempted ELSE <<>>, result |-> result]

handle_request(table, bytes, read_ok, write_ok) ==
    IF ~read_ok
    THEN [read |-> "Err", bytes |-> <<>>, parsed |-> "none", lookup |-> FALSE,
          selected |-> 0, invoked |-> <<>>, attempted |-> <<>>,
          written |-> <<>>, result |-> "Err"]
    ELSE
    LET content == from_utf8_lossy(bytes)
        request == parse_request_from_http_request_body(content)
    IN  IF ~request.ok
        THEN LET err == response_from_request_parse_error
                 \* one header name exists, so there is one iteration order
                 text == response_into_http_response_string(err,
                            CHOOSE o \in Orderings(DOMAIN err.headers) : TRUE)
             IN  Conn(bytes, "Err", FALSE, 0, <<>>, <<text>>, write_ok,
                      IF write_ok THEN "Ok" ELSE "Err")
        ELSE
        LET i == find(table, request)
        IN  IF i = 0
            THEN Conn(bytes, "Ok", TRUE, 0, <<>>, <<>>, TRUE, "Ok")
            ELSE
            LET bound == set_request_params_according_to_match(request, table[i].path)
            IN  IF bound.panicked
                THEN Conn(bytes, "Ok", TRUE, i, <<>>, <<>>, TRUE, "panic")
                ELSE
                LET resp == invoke(table[i].handler, bound.request)
                    text == response_into_http_response_string(resp,
                                CHOOSE o \in Orderings(DOMAIN resp.headers) : TRUE)
                IN  Conn(bytes, "Ok", TRUE, i,
                         <<[handler |-> table[i].handler, request |-> bound.request]>>,
                         <<text>>, write_ok,
                         IF write_ok THEN "Ok" ELSE "Err")

(***************************************************************************)
(* State.                                                                  *)
(***************************************************************************)
VARIABLES
    routes,     \* Server.routes: the (method, path, handler) entries, in order
    phase,      \* "new": being configured; "serving": in bind_and_run's loop;
                \* "returned": bind_and_run returned an Err, the server is
                \* the caller's again; "panicked"
    conn,       \* what handle_request did with the last connection
    response,   \* the Response a handler is building
    calls,      \* the setter calls made on `response`, oldest first
    wire,       \* response_into_http_response_string(response), once taken
    arg,        \* the argument of the pure function under test
    ret,        \* its return value, once called
    pc          \* "call" before the function is applied, "return" after

vars == <<routes, phase, conn, response, calls, wire, arg, ret, pc>>

serverVars == <<routes, phase, conn>>
responseVars == <<response, calls, wire>>
callVars == <<arg, ret, pc>>

NoConn == [read |-> "none"]

\* the parts of the state a specification does not use
ServerUnused == routes = <<>> /\ phase = "off" /\ conn = NoConn
ResponseUnused == response = DefaultResponse /\ calls = <<>> /\ wire = "none"
CallUnused == arg = "none" /\ ret = "none" /\ pc = "off"

SeqsUpTo(A, n) == UNION {[1..k -> A] : k \in 0..n}

(***************************************************************************)
(* SpecMatch: request_matches_route on every path and template up to the   *)
(* bounds.                                                                 *)
(***************************************************************************)
PathChars == {"/", "a", "?"}
RouteChars == {"/", "a", "{", "}"}

InitMatch ==
    /\ arg \in [path : SeqsUpTo(PathChars, MaxPathLen),
                route : SeqsUpTo(RouteChars, MaxRouteLen)]
    /\ ret = "none"
    /\ pc = "call"
    /\ ServerUnused
    /\ ResponseUnused

CallMatch ==
    /\ pc = "call"
    /\ ret' = request_matches_route(arg.path, arg.route)
    /\ pc' = "return"
    /\ UNCHANGED <<arg, serverVars, responseVars>>

NextMatch == CallMatch

SpecMatch == InitMatch /\ [][NextMatch]_vars

(***************************************************************************)
(* SpecMethod: HttpMethod::try_from on every case variant of the method    *)
(* names and on tokens that are no method name.                            *)
(***************************************************************************)
POST == <<"P", "O", "S", "T">>

Lower(c) ==
    CASE c = "A" -> "a" [] c = "C" -> "c" [] c = "D" -> "d" [] c = "E" -> "e"
      [] c = "G" -> "g" [] c = "H" -> "h" [] c = "L" -> "l" [] c = "O" -> "o"
      [] c = "P" -> "p" [] c = "S" -> "s" [] c = "T" -> "t" [] c = "U" -> "u"
      [] OTHER -> c

CaseVariants(name) ==
    {t \in [1..Len(name) -> {name[i] : i \in 1..Len(name)}
                             \cup {Lower(name[i]) : i \in 1..Len(name)}] :
        \A i \in 1..Len(name) : t[i] \in {name[i], Lower(name[i])}}

MethodTokens ==
    CaseVariants(GET) \cup CaseVariants(PUT) \cup CaseVariants(PATCH)
        \cup CaseVariants(DELETE) \cup CaseVariants(POST)
        \cup {<<>>, <<"G", "E">>, <<"G", "E", "T", "S">>,
               <<"a", "s", "d", "f">>}

InitMethod ==
    /\ arg \in MethodTokens
    /\ ret = "none"
    /\ pc = "call"
    /\ ServerUnused
    /\ ResponseUnused

CallTryFrom ==
    /\ pc = "call"
    /\ ret' = try_from(arg)
    /\ pc' = "return"
    /\ UNCHANGED <<arg, serverVars, responseVars>>

NextMethod == CallTryFrom

SpecMethod == InitMethod /\ [][NextMethod]_vars

(***************************************************************************)
(* SpecParse: parse_request_from_http_request_body on request texts built  *)
(* from a method token, a separator, a path with up to MaxFrags query      *)
(* fragments, and a tail.                                                  *)
(***************************************************************************)
ParseMethodTokens == {GET, PUT, <<"g", "e", "t">>, POST, <<"X">>, <<>>}
Separators == {<<>>, <<SP>>, <<SP, SP>>, <<TAB>>}
PathBases == {<<>>, <<"/", "p">>}
QueryFrags ==
    {<<>>, <<"x">>, <<"x", "=", "1">>, <<"x", "=", "2">>, <<"y", "=", "1">>,
     <<"=", "1">>, <<"x", "=", "1", "=", "2">>}
Tails == {<<>>, <<SP, "H">>, <<NL, "H">>}

Queries ==
    {<<>>} \cup {<<"?">> \o join(fs, <<"&">>) :
                    fs \in SeqsUpTo(QueryFrags, MaxFrags) \ {<<>>}}

Contents ==
    {t \o s \o b \o q \o e :
        t \in ParseMethodTokens, s \in Separators, b \in PathBases,
        q \in Queries, e \in Tails}

InitParse ==
    /\ arg \in Contents
    /\ ret = "none"
    /\ pc = "call"
    /\ ServerUnused
    /\ ResponseUnused

CallParse ==
    /\ pc = "call"
    /\ ret' = parse_request_from_http_request_body(arg)
    /\ pc' = "return"
    /\ UNCHANGED <<arg, serverVars, responseVars>>

NextParse == CallParse

SpecParse == InitParse /\ [][NextParse]_vars

(***************************************************************************)
(* SpecResponse: a default Response, up to MaxCalls setter calls on it,    *)
(* then its serialization.                                                 *)
(***************************************************************************)
Bodies == {<<>>, <<"t">>, <<"t", "e", "s", "t">>}
HeaderValues == {"test1", "test2"}

InitResponse ==
    /\ response = DefaultResponse
    /\ calls = <<>>
    /\ wire = "none"
    /\ ServerUnused
    /\ CallUnused

Mutable == wire = "none" /\ Len(calls) < MaxCalls

SetStatusCode ==
    /\ Mutable
    /\ \E code \in HttpStatusCode :
        /\ response' = set_status_code(response, code)
        /\ calls' = Append(calls, [fn |-> "set_status_code", arg |-> code])
    /\ UNCHANGED <<wire, serverVars, callVars>>

SetHeader ==
    /\ Mutable
    /\ \E name \in HttpHeaderName, value \in HeaderValues :
        /\ response' = set_header(response, name, value)
        /\ calls' = Append(calls, [fn |-> "set_header", name |-> name, arg |-> value])
    /\ UNCHANGED <<wire, serverVars, callVars>>

SetBody ==
    /\ Mutable
    /\ \E body \in Bodies :
        /\ response' = set_body(response, body)
        /\ calls' = Append(calls, [fn |-> "set_body", arg |-> body])
    /\ UNCHANGED <<wire, serverVars, callVars>>

SetJson ==
    /\ Mutable
    /\ \E json \in Bodies :
        /\ response' = set_json(response, json)
        /\ calls' = Append(calls, [fn |-> "set_json", arg |-> json])
    /\ UNCHANGED <<wire, serverVars, callVars>>

SetHtml ==
    /\ Mutable
    /\ \E html \in Bodies :
        /\ response' = set_html(response, html)
        /\ calls' = Append(calls, [fn |-> "set_html", arg |-> html])
    /\ UNCHANGED <<wire, serverVars, callVars>>

\* response_into_http_response_string takes the Response by value: no setter
\* call follows it
IntoHttpResponseString ==
    /\ wire = "none"
    /\ \E order \in Orderings(DOMAIN response.headers) :
        wire' = response_into_http_response_string(response, order)
    /\ UNCHANGED <<response, calls, serverVars, callVars>>

NextResponse ==
    \/ SetStatusCode
    \/ SetHeader
    \/ SetBody
    \/ SetJson
    \/ SetHtml
    \/ IntoHttpResponseString

SpecResponse == InitResponse /\ [][NextResponse]_vars

(***************************************************************************)
(* Spec: the server.  Routes are registered, bind_and_run starts the       *)
(* accept loop, and each accepted connection is handled to its end before  *)
(* the next: an Err of handle_request is returned by bind_and_run's `?`,   *)
(* a panic unwinds out of it.                                              *)
(***************************************************************************)
RouteMethods == {"GET", "PUT"}
RoutePaths == {<<"/", "a">>, <<"/", "{", "x", "}">>, <<"/", "a", "/", "a">>}

Line(method, path) == method \o <<SP>> \o path \o <<SP, "H">>

RequestBytes ==
    {Line(GET, <<"/", "a">>), Line(PUT, <<"/", "a">>),
     Line(GET, <<"/", "a", "/", "a", "/">>), Line(GET, <<"/">>),
     Line(<<"g", "e", "t">>, <<"/", "a">>), GET, <<>>}

Init ==
    /\ routes = <<>>
    /\ phase = "new"
    /\ conn = NoConn
    /\ ResponseUnused
    /\ CallUnused

\* add_route takes &mut self: the caller has the server before bind_and_run
\* is called and after it returned, not while bind_and_run (which holds
\* &mut self itself) is serving
AddRoute ==
    /\ phase \in {"new", "returned"}
    /\ Len(routes) < MaxRoutes
    /\ \E method \in RouteMethods, path \in RoutePaths :
        routes' = add_route(routes, method, path, Len(routes) + 1)
    /\ UNCHANGED <<phase, conn, responseVars, callVars>>

\* TcpListener::bind succeeds and the loop over incoming() starts, or it
\* fails and bind_and_run returns the error
BindAndRun ==
    /\ phase \in {"new", "returned"}
    /\ \E bind_ok \in BOOLEAN :
        phase' = IF bind_ok THEN "serving" ELSE "returned"
    /\ UNCHANGED <<routes, conn, responseVars, callVars>>

HandleRequest ==
    /\ phase = "serving"
    /\ \E bytes \in RequestBytes, read_ok \in BOOLEAN, write_ok \in BOOLEAN :
        /\ conn' = handle_request(routes, bytes, read_ok, write_ok)
        /\ phase' = CASE conn'.result = "Ok" -> "serving"
                      [] conn'.result = "Err" -> "returned"
                      [] conn'.result = "panic" -> "panicked"
    /\ UNCHANGED <<routes, responseVars, callVars>>

Next ==
    \/ AddRoute
    \/ BindAndRun
    \/ HandleRequest

Spec == Init /\ [][Next]_vars

(***************************************************************************)
(* Helpers of the properties.                                              *)
(***************************************************************************)
Range(s) == {s[i] : i \in 1..Len(s)}
Min(S) == CHOOSE x \in S : \A y \in S : x <= y
Max(S) == CHOOSE x \in S : \A y \in S : x >= y

\* the segments of a path or template as the specification describes them
Segments(s) == filter_non_empty(split(s, {"/"}))

\* the substring before the first '?'
BeforeQuery(path) == split(path, {"?"})[1]

(***************************************************************************)
(* C1: for a request that parsed, the route handle_request selects is the  *)
(* lowest-index route whose method equals the request's method and whose   *)
(* template matches the request path, none when no route is such; a        *)
(* handler invoked is the selected route's, so neither a later matching    *)
(* route's nor that of a route with another method.                        *)
(***************************************************************************)
ParsedRequest == parse_request_from_http_request_body(from_utf8_lossy(conn.bytes))

Candidates ==
    {i \in 1..Len(routes) :
        /\ routes[i].method = ParsedRequest.method
        /\ request_matches_route(ParsedRequest.path, routes[i].path)}

C1_FirstMatchingRouteSelected ==
    (conn.read = "Ok" /\ conn.parsed = "Ok") =>
        /\ conn.lookup
        /\ conn.selected = IF Candidates = {} THEN 0 ELSE Min(Candidates)
        /\ \A k \in 1..Len(conn.invoked) :
                /\ conn.selected # 0
                /\ conn.invoked[k].handler = routes[conn.selected].handler

\* route 2 is selected: route 1 matches the path but has another method,
\* route 3 matches as well
C1_Witness ==
    /\ conn.read = "Ok"
    /\ conn.parsed = "Ok"
    /\ Len(routes) = 3
    /\ conn.selected = 2
    /\ routes[1].method # ParsedRequest.method
    /\ request_matches_route(ParsedRequest.path, routes[1].path)
    /\ 3 \in Candidates

(***************************************************************************)
(* C2 as stated: when a route matches, the placeholders of its template    *)
(* are bound onto the request's params, its handler is invoked exactly     *)
(* once with that request, and the serialization of the handler's Response *)
(* is written to the connection.                                           *)
(***************************************************************************)
ClaimedParams(path, route) ==
    LET req == req_sub_paths(path)
        rou == route_sub_paths(route)
        at == {i \in 1..Len(rou) : wrapped_in_braces(rou[i])}
    IN  [name \in {SubSeq(rou[i], 2, Len(rou[i]) - 1) : i \in at} |->
            req[CHOOSE i \in at : SubSeq(rou[i], 2, Len(rou[i]) - 1) = name]]

C2_MatchBindsInvokesWrites ==
    (conn.read = "Ok" /\ conn.parsed = "Ok" /\ conn.selected # 0) =>
        /\ Len(conn.invoked) = 1
        /\ conn.invoked[1].handler = routes[conn.selected].handler
        /\ conn.invoked[1].request.params
                = ClaimedParams(ParsedRequest.path, routes[conn.selected].path)
        /\ Len(conn.attempted) = 1
        /\ \E order \in Orderings(HttpHeaderName) :
                conn.attempted[1] = response_into_http_response_string(
                    invoke(conn.invoked[1].handler, conn.invoked[1].request), order)

(***************************************************************************)
(* C3: when the request text does not parse, handle_request scans no       *)
(* route, invokes no handler, and gives write_all exactly one text, the    *)
(* BadRequest response with content-type text/html and the body            *)
(* "RequestParseError"; when the stream takes the write, that text is what *)
(* the connection got and handle_request returns Ok.                       *)
(***************************************************************************)
BadRequestWire ==
    <<"HTTP/1.1 ", "400", " ", "BadRequest", NL,
      "content-type", ": ", "text/html", NL,
      "content-length: ", "17", NL,
      NL>> \o RequestParseErrorText

C3_ParseFailureAnswersBadRequest ==
    (conn.read = "Ok" /\ conn.parsed = "Err") =>
        /\ ~conn.lookup
        /\ conn.selected = 0
        /\ conn.invoked = <<>>
        /\ conn.attempted = <<BadRequestWire>>
        /\ conn.result # "panic"
        /\ conn.result = "Ok" <=> conn.written = <<BadRequestWire>>
        /\ conn.result = "Err" <=> conn.written = <<>>

\* a request with a lower-case method got the BadRequest text
C3_Witness ==
    /\ conn.read = "Ok"
    /\ conn.parsed = "Err"
    /\ conn.bytes = Line(<<"g", "e", "t">>, <<"/", "a">>)
    /\ conn.written = <<BadRequestWire>>
    /\ conn.result = "Ok"
    /\ phase = "serving"

(***************************************************************************)
(* C4 as stated: for a request path without query, the match succeeds      *)
(* exactly when both have the same number of segments and at every         *)
(* position the template segment is wrapped in braces or the two segments  *)
(* are equal.                                                              *)
(***************************************************************************)
C4_MatchIffSegmentwise ==
    (pc = "return" /\ "?" \notin Range(arg.path)) =>
        (ret <=>
            LET req == Segments(arg.path)
                rou == Segments(arg.route)
            IN  /\ Len(req) = Len(rou)
                /\ \A i \in 1..Len(rou) :
                        wrapped_in_braces(rou[i]) \/ req[i] = rou[i])

(***************************************************************************)
(* C5 as stated: the query string is ignored for matching, so a path with  *)
(* a query matches a template (without '?') exactly when the substring     *)
(* before its first '?' does.                                              *)
(***************************************************************************)
C5_QueryIgnored ==
    (pc = "return" /\ "?" \in Range(arg.path) /\ "?" \notin Range(arg.route)) =>
        (ret <=> request_matches_route(BeforeQuery(arg.path), arg.route))

(***************************************************************************)
(* C6 as stated: a text of a valid method token, whitespace, a path token  *)
(* and optional further text parses to that method, that path token and    *)
(* the untouched text; a text with fewer than two whitespace-delimited     *)
(* tokens fails with RequestParseError.  (A token counts as a valid method *)
(* here when try_from accepts it.)                                         *)
(***************************************************************************)
Whitespace == {SP, TAB, NL}
Tokens(content) == filter_non_empty(split(content, Whitespace))

C6_ParseRecoversMethodAndPath ==
    pc = "return" =>
        LET toks == Tokens(arg)
        IN  IF Len(toks) < 2 THEN ret = RequestParseError
            ELSE (try_from(toks[1]).ok /\ arg[1] \notin Whitespace) =>
                    /\ ret.ok
                    /\ ret.method = try_from(toks[1]).method
                    /\ ret.path = toks[2]
                    /\ ret.raw_content = arg

(***************************************************************************)
(* C7 as stated: the method token is parsed case-insensitively against     *)
(* GET, POST, PUT, PATCH, DELETE: every case variant of a member's name    *)
(* parses to that member, every other token is a RequestParseError.        *)
(***************************************************************************)
ClaimedMethodNames ==
    [GET |-> GET, POST |-> POST, PUT |-> PUT, PATCH |-> PATCH, DELETE |-> DELETE]

C7_MethodCaseInsensitive ==
    pc = "return" =>
        IF \E m \in DOMAIN ClaimedMethodNames : arg \in CaseVariants(ClaimedMethodNames[m])
        THEN \E m \in DOMAIN ClaimedMethodNames :
                /\ arg \in CaseVariants(ClaimedMethodNames[m])
                /\ ret = [ok |-> TRUE, method |-> m]
        ELSE ret = RequestParseError

(***************************************************************************)
(* C8.  The query fragments of a path, and for the fragment at position i  *)
(* the positions of the fragments with the same key.                       *)
(***************************************************************************)
Fragments(path) == Tail(split(path, {"?", "&"}))
SameKey(frags, i) == {j \in 1..Len(frags) : key_val(frags[j])[1] = key_val(frags[i])[1]}

Lines(text) == split(text, {NL})
FirstBlank(lines) == Min({i \in 1..Len(lines) : lines[i] = <<>>})

ClaimedWire(r, order) ==
    join(<<<<"HTTP/1.1 ", ToString(status_number(r.status_code)), " ",
             r.status_code>>>>
            \o [i \in 1..Len(order) |->
                    <<header_name_str(order[i]), ": ", r.headers[order[i]]>>]
            \o <<<<"content-length: ", ToString(Len(r.body))>>, <<>>>>,
         <<NL>>)
        \o <<NL>> \o r.body

C9_WireFormat ==
    wire # "none" =>
        /\ \E order \in Orderings(DOMAIN response.headers) :
                wire = ClaimedWire(response, order)
        /\ LET lines == Lines(wire)
           IN  /\ FirstBlank(lines) > 1
               /\ lines[FirstBlank(lines) - 1]
                    = <<"content-length: ", ToString(Len(response.body))>>

(***************************************************************************)
(* C10: after any sequence of setter calls on a default Response, every    *)
(* header name holds exactly the value of the most recent call that set it *)
(* (set_header its argument, set_json application/json, set_html           *)
(* text/html) and is absent when no call set it; the body is the argument  *)
(* of the most recent set_body / set_json / set_html, empty when there was *)
(* none.  set_body and set_status_code are no header-setting calls, so     *)
(* they leave the headers as they were.                                    *)
(***************************************************************************)
SetsHeader(call, name) ==
    \/ call.fn = "set_header" /\ call.name = name
    \/ call.fn \in {"set_json", "set_html"} /\ name = "ContentType"

HeaderValueSet(call) ==
    CASE call.fn = "set_header" -> call.arg
      [] call.fn = "set_json" -> "application/json"
      [] call.fn = "set_html" -> "text/html"

LastIndex(name) == Max({i \in 1..Len(calls) : SetsHeader(calls[i], name)})
LastBodyIndex ==
    Max({i \in 1..Len(calls) : calls[i].fn \in {"set_body", "set_json", "set_html"}})

C10_MostRecentSetterWins ==
    /\ DOMAIN response.headers \subseteq HttpHeaderName
    /\ \A name \in HttpHeaderName :
        IF \E i \in 1..Len(calls) : SetsHeader(calls[i], name)
        THEN /\ name \in DOMAIN response.headers
             /\ response.headers[name] = HeaderValueSet(calls[LastIndex(name)])
        ELSE name \notin DOMAIN response.headers
    /\ IF \E i \in 1..Len(calls) : calls[i].fn \in {"set_body", "set_json", "set_html"}
       THEN response.body = calls[LastBodyIndex].arg
       ELSE response.body = <<>>

\* set_json, then set_html, then set_body with another text: the header is
\* text/html and the body is set_body's
C10_Witness ==
    /\ Len(calls) = 3
    /\ calls[1].fn = "set_json"
    /\ calls[2].fn = "set_html"
    /\ calls[3].fn = "set_body"
    /\ calls[3].arg # calls[2].arg
    /\ response.headers["ContentType"] = "text/html"
    /\ response.body = calls[3].arg

(***************************************************************************)
(* C11 as stated: every query fragment is split on its FIRST '=': the left *)
(* side is the key, the value is Some(everything after that '=') when      *)
(* there is an '=' and None otherwise; a fragment with an empty key adds   *)
(* no entry.  (Which of several fragments with one key gives the value is  *)
(* left open here.)                                                        *)
(***************************************************************************)
ClaimedKey(fragment) == split(fragment, {"="})[1]

ClaimedValue(fragment) ==
    IF "=" \in Range(fragment)
    THEN Some(SubSeq(fragment, Len(ClaimedKey(fragment)) + 2, Len(fragment)))
    ELSE None

C11_FragmentsSplitOnFirstEquals ==
    (pc = "return" /\ ret.ok) =>
        LET frags == Fragments(ret.path)
            keyed == {i \in 1..Len(frags) : ClaimedKey(frags[i]) # <<>>}
        IN  /\ DOMAIN ret.queries = {ClaimedKey(frags[i]) : i \in keyed}
            /\ \A i \in keyed :
                    ret.queries[ClaimedKey(frags[i])]
                        \in {ClaimedValue(frags[j]) :
                                j \in {k \in keyed :
                                        ClaimedKey(frags[k]) = ClaimedKey(frags[i])}}

(***************************************************************************)
(* C12 as stated: an I/O error while a connection is handled (the read of  *)
(* the request or the write of the response fails) ends only that          *)
(* connection's handling: the accept loop of bind_and_run is still serving *)
(* afterwards.                                                             *)
(***************************************************************************)
C12_IoFailureKeepsServing ==
    (conn.read # "none" /\ conn.result = "Err") => phase = "serving"

(***************************************************************************)
(* C13: when the request parsed and no route has its method and a          *)
(* matching template, handle_request invokes no handler, gives write_all   *)
(* at most one text and only a NotFound response (the code gives it        *)
(* nothing), and returns Ok, so the accept loop goes on serving.           *)
(***************************************************************************)
IsNotFoundWire(text) ==
    /\ Len(text) >= 4
    /\ SubSeq(text, 1, 4) = <<"HTTP/1.1 ", "404", " ", "NotFound">>

C13_NoMatchWritesNothingOrNotFound ==
    (conn.read = "Ok" /\ conn.parsed = "Ok" /\ Candidates = {}) =>
        /\ conn.lookup
        /\ conn.selected = 0
        /\ conn.invoked = <<>>
        /\ Len(conn.attempted) <= 1
        /\ \A k \in 1..Len(conn.attempted) : IsNotFoundWire(conn.attempted[k])
        /\ \A k \in 1..Len(conn.written) : IsNotFoundWire(conn.written[k])
        /\ conn.result = "Ok"
        /\ phase = "serving"

\* a PUT of /a found routes whose templates match /a, all of them for GET:
\* nothing was written and the server is still serving
C13_Witness ==
    /\ conn.read = "Ok"
    /\ conn.parsed = "Ok"
    /\ conn.bytes = Line(PUT, <<"/", "a">>)
    /\ Len(routes) = 2
    /\ \A i \in 1..2 :
            /\ routes[i].method = "GET"
            /\ request_matches_route(ParsedRequest.path, routes[i].path)
    /\ Candidates = {}
    /\ conn.invoked = <<>>
    /\ conn.written = <<>>
    /\ conn.result = "Ok"
    /\ phase = "serving"

(***************************************************************************)
(* C14: the route table changes only by add_route, which cannot run while  *)
(* bind_and_run is serving, and which appends exactly one entry (method,   *)
(* path, handler) at the end, leaving every existing entry and the order   *)
(* as they were; a step that handles a request (parse failure, match or    *)
(* no match) leaves the table as it was.                                   *)
(***************************************************************************)
C14_RouteTableAppendOnly ==
    [][/\ routes' # routes =>
            /\ phase # "serving"
            /\ phase' = phase
            /\ conn' = conn
            /\ Len(routes') = Len(routes) + 1
            /\ SubSeq(routes', 1, Len(routes)) = routes
            /\ routes'[Len(routes')] \in
                    [method : RouteMethods, path : RoutePaths,
                     handler : {Len(routes) + 1}]
       /\ (phase = "serving" \/ conn' # conn) => routes' = routes]_vars

\* two different routes were added, in this order, and a request was
\* handled afterwards
C14_Witness ==
    /\ Len(routes) = 2
    /\ routes[1] = [method |-> "PUT", path |-> <<"/", "a", "/", "a">>, handler |-> 1]
    /\ routes[2] = [method |-> "GET", path |-> <<"/", "{", "x", "}">>, handler |-> 2]
    /\ conn.read = "Ok"
    /\ conn.lookup
    /\ conn.bytes = Line(GET, <<"/">>)
    /\ phase = "serving"

=============================================================================
